---- MODULE Spec2Model ----
(***************************************************************************)
(* Authorization and receipt numbering core of the samuhlagna backend:     *)
(* the role -> permission table and user_has_permission                     *)
(* (login/permissions.py), the receipt endpoints (router/receipts.py,       *)
(* controller/receipts.py) and the receipt store operations                 *)
(* (manager/receipts.py) over the receipts table (models/receipts.py).      *)
(***************************************************************************)
EXTENDS Integers, Sequences, FiniteSets, TLC

VARIABLES
    users,      \* users table joined with user_roles: id -> [is_active, is_superuser, roles]
    receipts,   \* committed rows of the receipts table
    next_id,    \* next value of the SERIAL sequence behind receipts.id
    year,       \* datetime.now().year
    clock,      \* int(time.time())
    sess,       \* per worker: the database session of the request it is serving
    last,       \* the last completed request of the synchronous endpoints and its response
    tokens      \* per user: the payload of the access token the user's client holds

vars == <<users, receipts, next_id, year, clock, sess, last, tokens>>

----------------------------------------------------------------------------
(* login/permissions.py *)

READ_USER_DATA == "read_user_data"
CREATE_USER_DATA == "create_user_data"
UPDATE_USER_DATA == "update_user_data"
DELETE_USER_DATA == "delete_user_data"
EXPORT_USER_DATA == "export_user_data"
READ_VILLAGE_AREA == "read_village_area"
CREATE_VILLAGE_AREA == "create_village_area"
UPDATE_VILLAGE_AREA == "update_village_area"
DELETE_VILLAGE_AREA == "delete_village_area"
READ_RECEIPTS == "read_receipts"
CREATE_RECEIPTS == "create_receipts"
UPDATE_RECEIPTS == "update_receipts"
DELETE_RECEIPTS == "delete_receipts"
EXPORT_RECEIPTS == "export_receipts"
MANAGE_USERS == "manage_users"
MANAGE_ROLES == "manage_roles"
VIEW_SYSTEM_STATS == "view_system_stats"

Permission ==
    { READ_USER_DATA, CREATE_USER_DATA, UPDATE_USER_DATA, DELETE_USER_DATA,
      EXPORT_USER_DATA, READ_VILLAGE_AREA, CREATE_VILLAGE_AREA,
      UPDATE_VILLAGE_AREA, DELETE_VILLAGE_AREA, READ_RECEIPTS, CREATE_RECEIPTS,
      UPDATE_RECEIPTS, DELETE_RECEIPTS, EXPORT_RECEIPTS, MANAGE_USERS,
      MANAGE_ROLES, VIEW_SYSTEM_STATS }

ROLE_PERMISSIONS ==
    [ admin |->
        << READ_USER_DATA, CREATE_USER_DATA, UPDATE_USER_DATA, DELETE_USER_DATA,
           EXPORT_USER_DATA, READ_VILLAGE_AREA, CREATE_VILLAGE_AREA,
           UPDATE_VILLAGE_AREA, DELETE_VILLAGE_AREA, READ_RECEIPTS,
           CREATE_RECEIPTS, UPDATE_RECEIPTS, DELETE_RECEIPTS, EXPORT_RECEIPTS,
           MANAGE_USERS, MANAGE_ROLES, VIEW_SYSTEM_STATS >>,
      user_data_editor |->
        << READ_USER_DATA, CREATE_USER_DATA, UPDATE_USER_DATA, DELETE_USER_DATA,
           EXPORT_USER_DATA, READ_VILLAGE_AREA, CREATE_VILLAGE_AREA,
           UPDATE_VILLAGE_AREA, DELETE_VILLAGE_AREA, VIEW_SYSTEM_STATS >>,
      user_data_viewer |->
        << READ_USER_DATA, READ_VILLAGE_AREA, EXPORT_USER_DATA >>,
      receipt_report_viewer |->
        << READ_RECEIPTS, EXPORT_RECEIPTS >>,
      receipt_creator |->
        << CREATE_RECEIPTS, UPDATE_RECEIPTS, DELETE_RECEIPTS >> ]

\* Python's `x in list`
InList(x, list) == \E i \in 1..Len(list) : list[i] = x

\* a role the table does not know is given the permissions of admin
get_role_permissions_unknown_as_admin(role) ==
    IF role \in DOMAIN ROLE_PERMISSIONS THEN ROLE_PERMISSIONS[role] ELSE ROLE_PERMISSIONS.admin

\* ROLE_PERMISSIONS.get(role, [])
get_role_permissions(role) ==
    IF role \in DOMAIN ROLE_PERMISSIONS THEN ROLE_PERMISSIONS[role] ELSE << >>

\* the loop of user_has_permission from position i on
RECURSIVE has_permission_from(_, _, _)
has_permission_from(user_roles, required_permission, i) ==
    IF i > Len(user_roles) THEN FALSE
    ELSE IF InList(required_permission, get_role_permissions(user_roles[i])) THEN TRUE
    ELSE has_permission_from(user_roles, required_permission, i + 1)

\* the loop stops after the first role whatever it grants
user_has_permission_first_only(user_roles, required_permission) ==
    /\ Len(user_roles) > 0
    /\ InList(required_permission, get_role_permissions(user_roles[1]))

\* holding any role at all passes the check
user_has_permission_any_role(user_roles, required_permission) == Len(user_roles) > 0

\* the answer is served from a cache that is empty after the first second
user_has_permission_cached(user_roles, required_permission) ==
    clock = 0 /\ has_permission_from(user_roles, required_permission, 1)

user_has_permission(user_roles, required_permission) ==
    has_permission_from(user_roles, required_permission, 1)

----------------------------------------------------------------------------
(* bounds of the model *)

\* store identities 1..LowIds and OFFSET..OFFSET+LowIds are handed out
LowIds == 1
\* at most this many receipts, committed or pending
MaxReceipts == 2

Workers == {"w1", "w2"}
Years == {2025, 2026}
Seconds == {0, 1}
Donors == {"A", "B"}
\* donor_name of the creation requests
NewDonors == {"A"}

----------------------------------------------------------------------------
(* users (models/auth.py, manager/auth.py) *)

UserIds == {1, 2, 3}

\* User.username: unique, never changed by update_user
Username(user_id) ==
    CASE user_id = 1 -> "admin"
      [] user_id = 2 -> "receipt_creator7"
      [] OTHER -> "root"

\* the admin and a receipt creator as create_initial_data.py creates them,
\* and a superuser created with create_user without role assignments
SeedUsers ==
    [ u \in UserIds |->
        CASE u = 1 -> [is_active |-> TRUE, is_superuser |-> TRUE, roles |-> <<"admin">>]
          [] u = 2 -> [is_active |-> TRUE, is_superuser |-> FALSE, roles |-> <<"receipt_creator">>]
          [] OTHER -> [is_active |-> TRUE, is_superuser |-> TRUE, roles |-> << >>] ]

\* the role assignments are taken from the access token of the user
get_user_roles_from_token(user_id) == tokens[user_id].roles

\* manager/auth.py get_user_roles
get_user_roles(user_id) == users[user_id].roles

\* login_controller: the payload create_access_token signs, with the role
\* assignments of the users table at login
access_token(user_id, user_table) ==
    [sub |-> Username(user_id), user_id |-> user_id, roles |-> user_table[user_id].roles]

\* decode_access_token and get_user_by_username: the user of the token's sub
get_current_user(token) == CHOOSE u \in UserIds : Username(u) = token.sub

----------------------------------------------------------------------------
(* strings *)

Digits == <<"0", "1", "2", "3", "4", "5", "6", "7", "8", "9">>
IsDigit(c) == \E d \in 1..10 : Digits[d] = c

\* str.startswith
StartsWith(s, prefix) ==
    /\ Len(s) >= Len(prefix)
    /\ SubSeq(s, 1, Len(prefix)) = prefix

\* str.replace(old, ""): every non-overlapping occurrence of old, left to right
RECURSIVE RemoveAll(_, _)
RemoveAll(s, old) ==
    IF Len(s) < Len(old) \/ Len(old) = 0 THEN s
    ELSE IF SubSeq(s, 1, Len(old)) = old
         THEN RemoveAll(SubSeq(s, Len(old) + 1, Len(s)), old)
         ELSE SubSeq(s, 1, 1) \o RemoveAll(SubSeq(s, 2, Len(s)), old)

\* re.findall(r'\d+', s)[-1], "" when s has no digit
LastNumber(s) ==
    IF \A i \in 1..Len(s) : ~IsDigit(SubSeq(s, i, i)) THEN ""
    ELSE LET e == CHOOSE i \in 1..Len(s) :
                    /\ IsDigit(SubSeq(s, i, i))
                    /\ \A j \in (i + 1)..Len(s) : ~IsDigit(SubSeq(s, j, j))
             b == CHOOSE i \in 1..e :
                    /\ \A j \in i..e : IsDigit(SubSeq(s, j, j))
                    /\ (i = 1 \/ ~IsDigit(SubSeq(s, i - 1, i - 1)))
         IN SubSeq(s, b, e)

\* the field is cut to its last four characters
Format04d_last4(n) ==
    LET d == "000" \o ToString(n)
    IN  SubSeq(d, Len(d) - 3, Len(d))

\* format spec 04d of a non-negative integer
Format04d(n) ==
    LET d == ToString(n)
    IN  CASE Len(d) = 1 -> "000" \o d
          [] Len(d) = 2 -> "00" \o d
          [] Len(d) = 3 -> "0" \o d
          [] OTHER -> d

----------------------------------------------------------------------------
(* receipt numbering (manager/receipts.py) *)

OFFSET == 630

\* get_receipt_creator_code from the row it queried: found is false when the
\* query returned no user
creator_code_for(found, username, user_roles, is_superuser, user_id) ==
    IF ~found THEN "RC" \o ToString(user_id)
    ELSE IF InList("admin", user_roles) \/ is_superuser THEN "RCA"
    ELSE IF StartsWith(username, "receipt_creator")
         THEN "RC" \o RemoveAll(username, "receipt_creator")
    ELSE IF LastNumber(username) # "" THEN "RC" \o LastNumber(username)
    ELSE "RC" \o ToString(user_id)

\* get_receipt_creator_code; every user id of the model has a users row
get_receipt_creator_code(user_id) ==
    IF user_id \notin DOMAIN users
    THEN creator_code_for(FALSE, "", << >>, FALSE, user_id)
    ELSE creator_code_for(TRUE, Username(user_id), get_user_roles(user_id),
                          users[user_id].is_superuser, user_id)

\* the fallback negates the difference instead of taking the id
receipt_sequence_negated(id) == IF id - OFFSET <= 0 THEN OFFSET - id ELSE id - OFFSET

\* the fallback is taken for a negative difference only
receipt_sequence_strict(id) == IF id - OFFSET < 0 THEN id ELSE id - OFFSET

\* receipt_sequence: id - 630, the id itself when that is not positive
receipt_sequence(id) == IF id - OFFSET <= 0 THEN id ELSE id - OFFSET

\* f"{creator_code}/{year}/{receipt_sequence:04d}"
final_receipt_no(creator_code, yr, id) ==
    creator_code \o "/" \o ToString(yr) \o "/" \o Format04d(receipt_sequence(id))

\* f"TEMP_{int(time.time())}_{user_id}"
temp_receipt_no(now, user_id) ==
    "TEMP_" \o ToString(now) \o "_" \o ToString(user_id)

----------------------------------------------------------------------------
(* receipts table (models/receipts.py) and sessions (database.py) *)

NoRow == [id |-> 0, receipt_no |-> "", created_by |-> 0, status |-> "", donor_name |-> ""]

\* a session with no transaction open
IdleSession == [pc |-> "idle", row |-> NoRow]

\* every route wraps whatever was raised, an HTTPException included, as 500
route_except_wraps_all(op, raised) == 500

\* except Exception as e at the end of a route: the create route raises
\* HTTPException(500) for everything, the other routes re-raise an
\* HTTPException unchanged and answer 500 for any other exception
route_except(op, raised) == IF op = "create" THEN 500 ELSE raised

\* the HTTP status of the answer: a permission denial is a returned dict, so
\* it carries the route's own status (201 for POST /, 200 otherwise)
status_code(op, code) ==
    CASE code \in {"ok", "created", "denied"} -> IF op = "create" THEN 201 ELSE 200
      [] code = "forbidden" -> route_except(op, 403)
      [] code = "not_found" -> route_except(op, 404)
      [] OTHER -> route_except(op, 500)

\* "error_code" of the returned dict; an HTTPException body has only "detail"
error_code(code) == IF code = "denied" THEN "PERMISSION_DENIED" ELSE ""

\* what a request read and answered: the roles get_user_roles returned to
\* it, the permission it checked, its outcome and the receipt ids it returned
Response(op, user_id, receipt_id, code) ==
    [op |-> op, user_id |-> user_id, receipt_id |-> receipt_id, code |-> code,
     ids |-> {}, roles |-> get_user_roles(user_id), permission |-> "",
     status_code |-> status_code(op, code), error_code |-> error_code(code)]

ListResponse(op, user_id, code, ids) ==
    [op |-> op, user_id |-> user_id, receipt_id |-> 0, code |-> code,
     ids |-> ids, roles |-> get_user_roles(user_id), permission |-> "",
     status_code |-> status_code(op, code), error_code |-> error_code(code)]

NoRequest ==
    [op |-> "none", user_id |-> 0, receipt_id |-> 0, code |-> "none",
     ids |-> {}, roles |-> << >>, permission |-> "",
     status_code |-> 0, error_code |-> ""]

\* the unique index on receipts.receipt_no is missing
UniqueViolation_unenforced(receipt_no, rows) == FALSE

\* receipt_no = Column(String(50), unique=True, ...): the statement fails
UniqueViolation(receipt_no, rows) == \E r \in rows : r.receipt_no = receipt_no

\* the store does not look at uncommitted rows of other sessions
Pending_unseen(w) == {}

\* rows other sessions have flushed and not yet committed or rolled back
Pending(w) == {sess[v].row : v \in {x \in Workers \ {w} : sess[x].pc = "flushed"}}

\* the statement waits as long as any other session has an uncommitted row
commit_waits_for_any_pending(w, receipt_no) == Pending(w) # {}

\* the UPDATE that commit flushes waits while another session holds an
\* uncommitted row with the same receipt_no
commit_waits(w, receipt_no) == UniqueViolation(receipt_no, Pending(w))

\* identities far from 1 and from OFFSET, the last with a five digit sequence
ExampleIds == {50, 1407, 10630}

IdsExplored == (1..LowIds) \cup (OFFSET..(OFFSET + LowIds)) \cup ExampleIds

\* step 4 is skipped: the row keeps its placeholder
finalized_unchanged(row, receipt_no) == row

\* new_receipt.receipt_no = final_receipt_no
finalized(row, receipt_no) == [row EXCEPT !.receipt_no = receipt_no]

----------------------------------------------------------------------------
(* POST /receipts/: router create_receipt, create_receipt_controller,      *)
(* manager create_receipt                                                   *)

\* ReceiptCreate(**body): fields the schema does not declare are ignored
ReceiptCreate(body) == [f \in DOMAIN body \cap {"donor_name"} |-> body[f]]

\* the creator is taken from the body when the body names one
new_receipt_creator_from_body(id, now, user_id, body) ==
    [id |-> id, receipt_no |-> temp_receipt_no(now, user_id),
     created_by |-> IF "created_by" \in DOMAIN body THEN body.created_by ELSE user_id,
     status |-> "completed", donor_name |-> body.donor_name]

\* step 1: Receipt(receipt_no=TEMP..., donor_name=receipt_data.donor_name,
\* ..., created_by=user_id) with user_id = current_user.id
new_receipt(id, now, user_id, body) ==
    [id |-> id, receipt_no |-> temp_receipt_no(now, user_id), created_by |-> user_id,
     status |-> "completed", donor_name |-> ReceiptCreate(body).donor_name]

\* the request up to db_session.flush(): the permission gate of the router,
\* then the provisional INSERT, which draws the id from the sequence
CreateReceipt(w, u, body) ==
    /\ sess[w].pc = "idle"
    /\ users[u].is_active
    /\ next_id \in IdsExplored
    /\ Cardinality(receipts) + Cardinality(Pending(w)) < MaxReceipts
    /\ LET temp == temp_receipt_no(clock, u)
           row == new_receipt(next_id, clock, u, body)
       IN  IF ~user_has_permission(get_user_roles(u), CREATE_RECEIPTS)
           THEN /\ last' = Response("create", u, 0, "denied")
                /\ UNCHANGED <<sess, next_id>>
           ELSE \* a concurrent uncommitted row with the same code makes the INSERT wait
                /\ ~UniqueViolation(temp, Pending(w))
                /\ \E store_ok \in BOOLEAN :
                     IF store_ok /\ ~UniqueViolation(temp, receipts)
                     THEN /\ sess' = [sess EXCEPT ![w] = [pc |-> "flushed", row |-> row]]
                          /\ next_id' = next_id + 1
                          /\ UNCHANGED last
                     ELSE \* except: rollback, HTTP 500; the id may be consumed
                          /\ \E used \in {0, 1} : next_id' = next_id + used
                          /\ last' = Response("create", u, 0, "error")
                          /\ UNCHANGED sess
    /\ UNCHANGED <<users, receipts, year, clock, tokens>>

\* a creation request whose body carries the donor name only
CreateBegin(w, u, donor) == CreateReceipt(w, u, [donor_name |-> donor])

\* steps 3 to 5: creator code, sequence, final code, commit
CreateCommit(w) ==
    /\ sess[w].pc = "flushed"
    /\ LET row == sess[w].row
           final ==
               finalized(row, final_receipt_no(get_receipt_creator_code(row.created_by),
                                               year, row.id))
       IN  /\ ~commit_waits(w, final.receipt_no)
           /\ \E store_ok \in BOOLEAN :
             IF store_ok /\ ~UniqueViolation(final.receipt_no, receipts)
             THEN /\ receipts' = receipts \cup {final}
                  /\ sess' = [sess EXCEPT ![w] = [pc |-> "committed", row |-> final]]
                  /\ UNCHANGED last
             ELSE \* except: rollback, HTTP 500
                  /\ sess' = [sess EXCEPT ![w] = IdleSession]
                  /\ last' = Response("create", row.created_by, row.id, "error")
                  /\ UNCHANGED receipts
    /\ UNCHANGED <<users, next_id, year, clock, tokens>>

\* db_session.refresh(new_receipt), then the controller's response
CreateReturn(w) ==
    /\ sess[w].pc = "committed"
    /\ \E store_ok \in BOOLEAN :
         last' = Response("create", sess[w].row.created_by, sess[w].row.id,
                          IF store_ok THEN "created" ELSE "error")
    /\ sess' = [sess EXCEPT ![w] = IdleSession]
    /\ UNCHANGED <<users, receipts, next_id, year, clock, tokens>>

\* the worker dies or the request times out: the open transaction is aborted
\* by the store and nobody receives a response
Crash(w) ==
    /\ sess[w].pc \in {"flushed", "committed"}
    /\ sess' = [sess EXCEPT ![w] = IdleSession]
    /\ UNCHANGED <<users, receipts, next_id, year, clock, last, tokens>>

\* ids the sequence hands out to attempts that roll back are never reissued:
\* the sequence moves on to the ids around OFFSET
SequenceGap ==
    /\ next_id < OFFSET
    /\ next_id' = OFFSET
    /\ UNCHANGED <<users, receipts, year, clock, sess, last, tokens>>

NewYear ==
    /\ year + 1 \in Years
    /\ year' = year + 1
    /\ UNCHANGED <<users, receipts, next_id, clock, sess, last, tokens>>

Tick ==
    /\ clock + 1 \in Seconds
    /\ clock' = clock + 1
    /\ UNCHANGED <<users, receipts, next_id, year, sess, last, tokens>>

----------------------------------------------------------------------------
(* concurrent creation of receipts *)

InitSeq ==
    /\ users = SeedUsers
    /\ tokens = [u \in UserIds |-> access_token(u, SeedUsers)]
    /\ receipts = {}
    /\ next_id = 1
    /\ year = 2025
    /\ clock = 0
    /\ sess = [w \in Workers |-> IdleSession]
    /\ last = NoRequest

NextSeq ==
    \/ \E w \in Workers, u \in UserIds, donor \in NewDonors : CreateBegin(w, u, donor)
    \/ \E w \in Workers : CreateCommit(w)
    \/ \E w \in Workers : CreateReturn(w)
    \/ \E w \in Workers : Crash(w)
    \/ SequenceGap
    \/ NewYear
    \/ Tick

SpecSeq == InitSeq /\ [][NextSeq]_vars

----------------------------------------------------------------------------
(* claims about the creation of receipts, checked under SpecSeq *)

\* reading a receipt code back: its placeholder prefix, its year and its
\* sequence number
IsPlaceholder(receipt_no) == StartsWith(receipt_no, "TEMP_")

DigitValue(c) == (CHOOSE d \in 1..10 : Digits[d] = c) - 1

\* int() of a string of decimal digits
RECURSIVE ParseInt(_)
ParseInt(s) ==
    IF Len(s) = 0 THEN 0
    ELSE 10 * ParseInt(SubSeq(s, 1, Len(s) - 1)) + DigitValue(SubSeq(s, Len(s), Len(s)))

\* the text after the last "/" of a receipt code
LastField(s) ==
    LET slashes == {i \in 1..Len(s) : SubSeq(s, i, i) = "/"}
        from == IF slashes = {} THEN 1
                ELSE (CHOOSE i \in slashes : \A j \in slashes : j <= i) + 1
    IN SubSeq(s, from, Len(s))

\* the text between the first and the second "/" of a receipt code
YearField(s) ==
    LET slashes == {i \in 1..Len(s) : SubSeq(s, i, i) = "/"}
        a == CHOOSE i \in slashes : \A j \in slashes : i <= j
        b == CHOOSE i \in slashes \ {a} : \A j \in slashes \ {a} : i <= j
    IN SubSeq(s, a + 1, b - 1)

SequenceOf(receipt_no) == ParseInt(LastField(receipt_no))
YearOf(receipt_no) == ParseInt(YearField(receipt_no))

SameYear(a, b) == YearOf(a.receipt_no) = YearOf(b.receipt_no)

\* C1: no two committed receipts carry the same receipt code, whatever the
\* creators, the identities and the interleaving of the creations
C1_CodesPairwiseDistinct ==
    \A a, b \in receipts : a.receipt_no = b.receipt_no => a = b

\* two receipts of one creator and one year are committed, one with an
\* identity below OFFSET and one above
C1_Witness ==
    \E a, b \in receipts :
        /\ a.id <= OFFSET /\ b.id > OFFSET
        /\ a.created_by = b.created_by
        /\ SameYear(a, b)

C3_NoCommittedPlaceholder ==
    \A r \in receipts : ~IsPlaceholder(r.receipt_no)

\* a provisional row with its placeholder is flushed in one session while
\* another creation has already committed
C3_Witness ==
    /\ receipts # {}
    /\ \E w \in Workers :
        /\ sess[w].pc = "flushed"
        /\ IsPlaceholder(sess[w].row.receipt_no)

\* C4 as stated: when the caller of a creation is told that it failed, no
\* receipt row of that attempt is in the store
C4_FailedCreationLeavesNoRow ==
    (last.op = "create" /\ last.code = "error")
    => ~\E r \in receipts : r.id = last.receipt_id

\* C5 as stated: a creation requested by a superuser is never answered with
\* a permission denial
C5_SuperuserIsAuthorized ==
    (last.op = "create" /\ last.user_id \in UserIds /\ users[last.user_id].is_superuser)
    => last.code # "denied"

----------------------------------------------------------------------------
(* reading and changing receipts, administering users *)

RECEIPT_CREATOR == "receipt_creator"

\* rows of the roles table: the roles of create_initial_data.py and one role
\* created with create_role that ROLE_PERMISSIONS does not know
RoleTable ==
    {"admin", "user_data_editor", "user_data_viewer", "receipt_report_viewer",
     RECEIPT_CREATOR, "auditor"}

\* role lists an administrator assigns
RoleLists ==
    { << >>, <<RECEIPT_CREATOR>>, <<"receipt_report_viewer">>, <<"admin">>,
      <<"user_data_viewer">>, <<"auditor">>,
      <<"receipt_report_viewer", RECEIPT_CREATOR>>, <<RECEIPT_CREATOR, "admin">> }

\* users an administrator updates
AdminTargets == {2}

\* UserUpdate payloads: a field that is absent is None
UserUpdates ==
    {[is_active |-> b] : b \in BOOLEAN}
    \cup {[is_superuser |-> b] : b \in BOOLEAN}
    \cup {[roles |-> rl] : rl \in RoleLists}
    \cup {[is_active |-> FALSE, is_superuser |-> FALSE, roles |-> << >>]}

\* JSON bodies of PUT /receipts/{id}
Bodies ==
    { [status |-> "cancelled"], [status |-> "completed"],
      [donor_name |-> "A"], [donor_name |-> "B"],
      [donor_name |-> "B", status |-> "cancelled"],
      [receipt_no |-> "RCA/2025/0009"], [created_by |-> 3],
      [id |-> 9, donor_name |-> "B"] }

\* receipt ids requests name; no receipt has the last one
RequestedIds == {1, 2, 9}

\* the schema accepts and keeps every field of the body
ReceiptUpdate_allow_extra(body) == body

\* ReceiptUpdate(**body).dict(exclude_unset=True): fields the schema does not
\* declare are dropped
ReceiptUpdate(body) ==
    [f \in DOMAIN body \cap {"status", "donor_name"} |-> body[f]]

\* for field, value in update_data.items(): setattr(receipt, field, value)
apply_update(receipt, update_data) ==
    [f \in DOMAIN receipt |->
        IF f \in DOMAIN update_data THEN update_data[f] ELSE receipt[f]]

\* the owner is compared after setattr and commit
update_result_checked_late(receipt, update_data, forbidden) ==
    apply_update(receipt, update_data)

\* update_receipt: the 403 is raised before setattr and commit run, the row
\* stays as it was read
update_result(receipt, update_data, forbidden) ==
    IF forbidden THEN receipt ELSE apply_update(receipt, update_data)

\* the status is flipped instead of set
cancelled_toggle(receipt) ==
    [receipt EXCEPT !.status = IF @ = "cancelled" THEN "completed" ELSE "cancelled"]

\* receipt.status = 'cancelled'
cancelled(receipt) == [receipt EXCEPT !.status = "cancelled"]

\* db_session.query(Receipt).filter(Receipt.id == receipt_id).first()
get_receipt_by_id(receipt_id) == {r \in receipts : r.id = receipt_id}

\* the permission gate of GET /receipts/{id} and GET /receipts/
read_gate(user_roles) ==
    \/ user_has_permission(user_roles, READ_RECEIPTS)
    \/ InList(RECEIPT_CREATOR, user_roles)

\* get_receipt_controller: "receipt_creator" in user_roles and owner != user
view_forbidden(user_roles, created_by, user_id) ==
    InList(RECEIPT_CREATOR, user_roles) /\ created_by # user_id

\* the owner is not compared
update_forbidden_never(user_roles, created_by, user_id) == FALSE

\* update_receipt: "receipt_creator" in user_roles and owner != user
update_forbidden(user_roles, created_by, user_id) ==
    InList(RECEIPT_CREATOR, user_roles) /\ created_by # user_id

\* delete_receipt: "receipt_creator" in user_roles and owner != user
delete_forbidden(user_roles, created_by, user_id) ==
    InList(RECEIPT_CREATOR, user_roles) /\ created_by # user_id

\* the outcome of GET /receipts/{id} when the store answers
get_receipt(user_id, receipt_id) ==
    LET user_roles == get_user_roles(user_id)
        found == get_receipt_by_id(receipt_id)
    IN  IF ~read_gate(user_roles) THEN "denied"
        ELSE IF found = {} THEN "not_found"
        ELSE IF \E r \in found : view_forbidden(user_roles, r.created_by, user_id)
             THEN "forbidden"
        ELSE "ok"

\* get_receipts_paginated with filters = None: the rows of the query before
\* offset and limit, which total_count counts
get_receipts_paginated(user_id, user_roles) ==
    IF Len(user_roles) > 0 /\ InList(RECEIPT_CREATOR, user_roles)
    THEN {r \in receipts : r.created_by = user_id}
    ELSE receipts

\* get_receipts_for_export with filters = None: the rows exported
get_receipts_for_export(user_id, user_roles) ==
    LET has_read_receipts == user_has_permission(user_roles, READ_RECEIPTS)
        is_admin == InList("admin", user_roles)
    IN  IF Len(user_roles) > 0 /\ ~(has_read_receipts \/ is_admin)
        THEN IF user_id # 0
             THEN {r \in receipts : r.created_by = user_id}
             ELSE {}
        ELSE receipts

\* get_receipt_stats: the rows total_receipts counts
get_receipt_stats(user_id, user_roles) ==
    IF Len(user_roles) > 0 /\ InList(RECEIPT_CREATOR, user_roles)
    THEN {r \in receipts : r.created_by = user_id}
    ELSE receipts

Ids(rows) == {r.id : r \in rows}

\* GET /receipts/{receipt_id}
GetReceipt(u, receipt_id) ==
    /\ users[u].is_active
    /\ \E store_ok \in BOOLEAN :
         last' = IF ~store_ok THEN Response("get", u, receipt_id, "error")
                 ELSE IF get_receipt(u, receipt_id) = "ok"
                      THEN [Response("get", u, receipt_id, "ok") EXCEPT !.ids = {receipt_id}]
                 ELSE Response("get", u, receipt_id, get_receipt(u, receipt_id))
    /\ UNCHANGED <<users, receipts, next_id, year, clock, sess, tokens>>

\* GET /receipts/ without filters, pdf = csv = False
ListReceipts(u) ==
    /\ users[u].is_active
    /\ \E store_ok \in BOOLEAN :
         last' = IF ~read_gate(get_user_roles(u)) THEN ListResponse("list", u, "denied", {})
                 ELSE IF ~store_ok THEN ListResponse("list", u, "error", {})
                 ELSE ListResponse("list", u, "ok",
                                   Ids(get_receipts_paginated(u, get_user_roles(u))))
    /\ UNCHANGED <<users, receipts, next_id, year, clock, sess, tokens>>

\* GET /receipts/ without filters, pdf or csv set
ExportReceipts(u) ==
    /\ users[u].is_active
    /\ \E store_ok \in BOOLEAN :
         last' = IF ~read_gate(get_user_roles(u)) THEN ListResponse("export", u, "denied", {})
                 ELSE IF ~store_ok THEN ListResponse("export", u, "error", {})
                 ELSE ListResponse("export", u, "ok",
                                   Ids(get_receipts_for_export(u, get_user_roles(u))))
    /\ UNCHANGED <<users, receipts, next_id, year, clock, sess, tokens>>

\* GET /receipts/stats/summary
ReceiptStatistics(u) ==
    /\ users[u].is_active
    /\ \E store_ok \in BOOLEAN :
         last' = IF ~store_ok THEN ListResponse("stats", u, "error", {})
                 ELSE ListResponse("stats", u, "ok",
                                   Ids(get_receipt_stats(u, get_user_roles(u))))
    /\ UNCHANGED <<users, receipts, next_id, year, clock, sess, tokens>>

\* PUT /receipts/{receipt_id}: router update_receipt,
\* update_receipt_controller, manager update_receipt
UpdateReceipt(u, receipt_id, body) ==
    /\ users[u].is_active
    /\ LET user_roles == get_user_roles(u)
           found == get_receipt_by_id(receipt_id)
       IN  IF ~user_has_permission(user_roles, UPDATE_RECEIPTS)
           THEN /\ last' = Response("update", u, receipt_id, "denied")
                /\ UNCHANGED receipts
           ELSE IF found = {}
           THEN /\ last' = Response("update", u, receipt_id, "not_found")
                /\ UNCHANGED receipts
           ELSE \E receipt \in found : \E store_ok, refreshed \in BOOLEAN :
                  LET forbidden == update_forbidden(user_roles, receipt.created_by, u)
                      updated == update_result(receipt, ReceiptUpdate(body), forbidden)
                  IN  IF forbidden
                      THEN /\ last' = Response("update", u, receipt_id, "forbidden")
                           /\ receipts' = (receipts \ {receipt}) \cup {updated}
                      ELSE IF store_ok
                              /\ ~UniqueViolation(updated.receipt_no, receipts \ {receipt})
                      THEN \* commit; refresh and the controller's queries may
                           \* still fail: HTTP 500 after the commit
                           /\ receipts' = (receipts \ {receipt}) \cup {updated}
                           /\ last' = Response("update", u, receipt_id,
                                               IF refreshed THEN "ok" ELSE "error")
                      ELSE \* except Exception: rollback, HTTP 500
                           /\ last' = Response("update", u, receipt_id, "error")
                           /\ UNCHANGED receipts
    /\ UNCHANGED <<users, next_id, year, clock, sess, tokens>>

\* DELETE /receipts/{receipt_id}: router delete_receipt,
\* delete_receipt_controller, manager delete_receipt
DeleteReceipt(u, receipt_id) ==
    /\ users[u].is_active
    /\ LET user_roles == get_user_roles(u)
           found == get_receipt_by_id(receipt_id)
       IN  IF ~user_has_permission(user_roles, DELETE_RECEIPTS)
           THEN /\ last' = Response("delete", u, receipt_id, "denied")
                /\ UNCHANGED receipts
           ELSE IF found = {}
           THEN /\ last' = Response("delete", u, receipt_id, "not_found")
                /\ UNCHANGED receipts
           ELSE \E receipt \in found : \E store_ok \in BOOLEAN :
                  IF delete_forbidden(user_roles, receipt.created_by, u)
                  THEN /\ last' = Response("delete", u, receipt_id, "forbidden")
                       /\ UNCHANGED receipts
                  ELSE IF store_ok
                  THEN /\ receipts' = (receipts \ {receipt}) \cup {cancelled(receipt)}
                       /\ last' = Response("delete", u, receipt_id, "ok")
                  ELSE /\ last' = Response("delete", u, receipt_id, "error")
                       /\ UNCHANGED receipts
    /\ UNCHANGED <<users, next_id, year, clock, sess, tokens>>

\* assign_user_roles: the old rows are deleted, one row is added per name
\* that has a row in the roles table
assign_user_roles(role_names) ==
    SelectSeq(role_names, LAMBDA name : name \in RoleTable)

\* deactivating a user removes the receipts the user created
created_receipts_dropped(rows, target, user_data) ==
    IF "is_active" \in DOMAIN user_data /\ ~user_data.is_active
    THEN {r \in rows : r.created_by # target}
    ELSE rows

\* User.created_receipts = relationship("Receipt", back_populates="creator"):
\* no cascade, the commit of update_user writes no receipt row
created_receipts(rows, target, user_data) == rows

\* manager update_user through update_user_controller
UpdateUser(target, user_data) ==
    /\ users' = [users EXCEPT ![target] =
                   [is_active |-> IF "is_active" \in DOMAIN user_data
                                  THEN user_data.is_active ELSE @.is_active,
                    is_superuser |-> IF "is_superuser" \in DOMAIN user_data
                                     THEN user_data.is_superuser ELSE @.is_superuser,
                    roles |-> IF "roles" \in DOMAIN user_data
                              THEN assign_user_roles(user_data.roles) ELSE @.roles]]
    /\ last' = [NoRequest EXCEPT !.op = "update_user", !.user_id = target, !.code = "ok"]
    /\ receipts' = created_receipts(receipts, target, user_data)
    /\ UNCHANGED <<next_id, year, clock, sess, tokens>>

\* two receipts exist, created by the admin and by the receipt creator
InitAcc ==
    /\ users = SeedUsers
    /\ tokens = [u \in UserIds |-> access_token(u, SeedUsers)]
    /\ year = 2025
    /\ clock = 0
    /\ next_id = 3
    /\ receipts =
         { [id |-> i, receipt_no |-> final_receipt_no(get_receipt_creator_code(i), year, i),
            created_by |-> i, status |-> "completed", donor_name |-> "A"] : i \in {1, 2} }
    /\ sess = [w \in Workers |-> IdleSession]
    /\ last = NoRequest

NextAcc ==
    \/ \E u \in UserIds, rid \in RequestedIds : GetReceipt(u, rid)
    \/ \E u \in UserIds : ListReceipts(u)
    \/ \E u \in UserIds : ExportReceipts(u)
    \/ \E u \in UserIds : ReceiptStatistics(u)
    \/ \E u \in UserIds, rid \in RequestedIds, body \in Bodies : UpdateReceipt(u, rid, body)
    \/ \E u \in UserIds, rid \in RequestedIds : DeleteReceipt(u, rid)
    \/ \E target \in AdminTargets, user_data \in UserUpdates : UpdateUser(target, user_data)

SpecAcc == InitAcc /\ [][NextAcc]_vars

----------------------------------------------------------------------------
(* claims about access to receipts, checked under SpecAcc.  Every request   *)
(* of SpecAcc writes last, so a step with last'.op = "update" is an update  *)
(* request and users holds the roles that request read.  The code "error"   *)
(* is the HTTP 500 of a store failure and of nothing else.                  *)

\* C6: an update or delete by a principal holding receipt_creator on an
\* existing receipt of another creator is answered 403 and changes no
\* receipt; on a receipt the principal created it is not rejected: it
\* succeeds unless the store fails, a failed delete changes nothing and a
\* successful delete cancels the receipt
C6_CreatorOwnership ==
    [][(/\ last'.op \in {"update", "delete"}
        /\ InList(RECEIPT_CREATOR, get_user_roles(last'.user_id)))
       => \A r \in get_receipt_by_id(last'.receipt_id) :
            IF r.created_by # last'.user_id
            THEN /\ last'.code = "forbidden"
                 /\ receipts' = receipts
            ELSE /\ last'.code \in {"ok", "error"}
                 /\ (last'.op = "delete" /\ last'.code = "error") => receipts' = receipts
                 /\ (last'.op = "delete" /\ last'.code = "ok")
                    => cancelled(r) \in receipts']_vars

\* a principal holding receipt_creator was answered 403 for a receipt of
\* another creator
C6_Witness ==
    /\ last.op \in {"update", "delete"}
    /\ last.code = "forbidden"
    /\ InList(RECEIPT_CREATOR, last.roles)
    /\ \E r \in receipts : r.id = last.receipt_id /\ r.created_by # last.user_id

\* C7 as stated: a receipt whose status is cancelled never has status
\* completed afterwards
C7_NoResurrection ==
    [][\A r \in receipts : \A r2 \in receipts' :
          (r2.id = r.id /\ r.status = "cancelled") => r2.status # "completed"]_vars

\* C7 amended: a successful delete_receipt leaves the receipt cancelled, and
\* a cancelled receipt becomes completed again only by an update_receipt
\* request on that receipt that passed the gate and the ownership check
C7_OnlyUpdateResurrects ==
    [][/\ \A r \in receipts : \A r2 \in receipts' :
            (r2.id = r.id /\ r.status = "cancelled" /\ r2.status = "completed")
            => (/\ last'.op = "update"
                /\ last'.receipt_id = r.id
                /\ last'.code \in {"ok", "error"})
       /\ (last'.op = "delete" /\ last'.code = "ok")
            => \A r2 \in receipts' : r2.id = last'.receipt_id => r2.status = "cancelled"]_vars

\* a delete request succeeded and its receipt is cancelled
C7_Witness ==
    /\ last.op = "delete"
    /\ last.code = "ok"
    /\ \E r \in receipts : r.id = last.receipt_id /\ r.status = "cancelled"

\* C8: no update, delete or user administration changes the receipt_no, the
\* created_by or the id of a committed receipt
C8_IdentityImmutable ==
    [][\A r \in receipts : \E r2 \in receipts' :
          /\ r2.id = r.id
          /\ r2.receipt_no = r.receipt_no
          /\ r2.created_by = r.created_by]_vars

\* an update request succeeded and changed a field of its receipt
C8_Witness ==
    /\ last.op = "update"
    /\ last.code = "ok"
    /\ \E r \in receipts :
         r.id = last.receipt_id /\ (r.donor_name = "B" \/ r.status = "cancelled")

FetchReturns(u, r) == get_receipt(u, r.id) = "ok"
ListIncludes(u, r) ==
    read_gate(get_user_roles(u)) /\ r \in get_receipts_paginated(u, get_user_roles(u))
ExportIncludes(u, r) ==
    read_gate(get_user_roles(u)) /\ r \in get_receipts_for_export(u, get_user_roles(u))
StatsCounts(u, r) == r \in get_receipt_stats(u, get_user_roles(u))

\* C9 as stated: for every principal and receipt, the single fetch returns
\* the receipt iff the unfiltered list includes it iff the export includes
\* it iff the statistics count it, and update and delete apply the owner
\* condition of the fetch
C9_SameRestrictionEverywhere ==
    \A u \in UserIds : \A r \in receipts :
        users[u].is_active =>
            /\ FetchReturns(u, r) <=> ListIncludes(u, r)
            /\ ListIncludes(u, r) <=> ExportIncludes(u, r)
            /\ ExportIncludes(u, r) <=> StatsCounts(u, r)
            /\ update_forbidden(get_user_roles(u), r.created_by, u)
               <=> view_forbidden(get_user_roles(u), r.created_by, u)
            /\ delete_forbidden(get_user_roles(u), r.created_by, u)
               <=> view_forbidden(get_user_roles(u), r.created_by, u)

----------------------------------------------------------------------------
(* the permission check as a function of its arguments *)

\* longest role list of a principal
MaxRoles == 2

RoleSeqs == UNION {[1..n -> RoleTable] : n \in 0..MaxRoles}

\* user_has_permission(user_roles, required_permission) is called
Authorize(user_roles, required_permission) ==
    /\ last' = [NoRequest EXCEPT
                  !.op = "authorize",
                  !.roles = user_roles,
                  !.permission = required_permission,
                  !.code = IF user_has_permission(user_roles, required_permission)
                           THEN "allow" ELSE "deny"]
    /\ UNCHANGED <<users, receipts, next_id, year, clock, sess, tokens>>

NextAuth ==
    \E user_roles \in RoleSeqs, required_permission \in Permission :
        Authorize(user_roles, required_permission)

SpecAuth == InitSeq /\ [][NextAuth]_vars

\* the permissions the table lists for a role name
Granted(role) ==
    IF role \in DOMAIN ROLE_PERMISSIONS
    THEN {ROLE_PERMISSIONS[role][i] : i \in 1..Len(ROLE_PERMISSIONS[role])}
    ELSE {}

\* C10: the check answers true iff at least one held role lists the
\* permission in ROLE_PERMISSIONS, and a role added at either end of the role
\* list never turns an allowed permission into a denied one
C10_UnionOfRoles ==
    last.op = "authorize" =>
        /\ last.code = "allow"
           <=> \E i \in 1..Len(last.roles) : last.permission \in Granted(last.roles[i])
        /\ last.code = "allow" =>
             \A extra \in RoleTable :
                /\ user_has_permission(Append(last.roles, extra), last.permission)
                /\ user_has_permission(<<extra>> \o last.roles, last.permission)

\* a permission was allowed that only the second held role grants
C10_Witness ==
    /\ last.op = "authorize"
    /\ last.code = "allow"
    /\ Len(last.roles) = 2
    /\ last.permission \notin Granted(last.roles[1])
    /\ last.permission \in Granted(last.roles[2])

\* role names of the roles table that ROLE_PERMISSIONS has no entry for
UnknownRoles == RoleTable \ DOMAIN ROLE_PERMISSIONS

\* the role list with one more role at position k + 1
InsertRole(user_roles, k, role) ==
    SubSeq(user_roles, 1, k) \o <<role>> \o SubSeq(user_roles, k + 1, Len(user_roles))

\* C11: a principal holding only roles absent from ROLE_PERMISSIONS is denied
\* every permission, and an unknown role added anywhere in a role list leaves
\* the answer for the permission unchanged
C11_UnknownRoleGrantsNothing ==
    last.op = "authorize" =>
        /\ (\A i \in 1..Len(last.roles) : last.roles[i] \in UnknownRoles)
           => last.code = "deny"
        /\ \A unknown \in UnknownRoles : \A k \in 0..Len(last.roles) :
             user_has_permission(InsertRole(last.roles, k, unknown), last.permission)
             <=> last.code = "allow"

\* a principal holding an unknown role and nothing else was denied
C11_Witness ==
    /\ last.op = "authorize"
    /\ Len(last.roles) >= 1
    /\ \A i \in 1..Len(last.roles) : last.roles[i] \in UnknownRoles
    /\ last.code = "deny"

----------------------------------------------------------------------------
(* requests that carry access tokens issued before a role change *)

\* POST /auth/login with the right password: login_controller
Login(u) ==
    /\ IF users[u].is_active
       THEN /\ tokens' = [tokens EXCEPT ![u] = access_token(u, users)]
            /\ last' = [NoRequest EXCEPT !.op = "login", !.user_id = u, !.code = "ok",
                                         !.roles = users[u].roles]
       ELSE /\ last' = [NoRequest EXCEPT !.op = "login", !.user_id = u, !.code = "inactive"]
            /\ UNCHANGED tokens
    /\ UNCHANGED <<users, receipts, next_id, year, clock, sess>>

\* the tokens the clients hold
HeldTokens == {tokens[u] : u \in UserIds}

\* role changes an administrator commits
RoleChanges == {[roles |-> rl] : rl \in RoleLists}

\* bodies and receipt ids of the requests sent with a held token
TokenBodies == {[status |-> "cancelled"], [donor_name |-> "B"]}
TokenRequestedIds == {1, 2}

NextTok ==
    \/ \E u \in UserIds : Login(u)
    \/ \E target \in AdminTargets, user_data \in RoleChanges : UpdateUser(target, user_data)
    \/ \E t \in HeldTokens, rid \in TokenRequestedIds : GetReceipt(get_current_user(t), rid)
    \/ \E t \in HeldTokens : ListReceipts(get_current_user(t))
    \/ \E t \in HeldTokens, rid \in TokenRequestedIds, body \in TokenBodies :
          UpdateReceipt(get_current_user(t), rid, body)
    \/ \E t \in HeldTokens, rid \in TokenRequestedIds : DeleteReceipt(get_current_user(t), rid)

SpecTok == InitAcc /\ [][NextTok]_vars

\* what the gate of a receipt request asks of a role list
GateAllows(op, user_roles) ==
    CASE op = "update" -> user_has_permission(user_roles, UPDATE_RECEIPTS)
      [] op = "delete" -> user_has_permission(user_roles, DELETE_RECEIPTS)
      [] OTHER -> read_gate(user_roles)

\* C12: a receipt request is authorized against the role assignments that
\* are committed when it starts, whatever roles its access token embeds: it
\* is denied only if those assignments fail the gate, and passes the gate
\* if they satisfy it
C12_RolesReadFresh ==
    [][last'.op \in {"get", "list", "update", "delete"}
       => LET committed == users[last'.user_id].roles
          IN  /\ last'.roles = committed
              /\ last'.code = "denied" => ~GateAllows(last'.op, committed)
              /\ ~GateAllows(last'.op, committed) => last'.code \in {"denied", "error"}]_vars

\* a request was denied although the token it carried embeds roles that
\* pass its gate
C12_Witness ==
    /\ last.op \in {"update", "delete"}
    /\ last.code = "denied"
    /\ last.user_id \in UserIds
    /\ GateAllows(last.op, tokens[last.user_id].roles)

----------------------------------------------------------------------------
(* claims about the gates of the receipt endpoints, checked under SpecAcc *)

\* C13 as stated: a read request (fetch, list, export, statistics) of a
\* principal that is no superuser and whose roles neither grant
\* READ_RECEIPTS nor include receipt_creator returns no receipt and counts
\* no receipt
C13_ReadsAreGated ==
    (/\ last.op \in {"get", "list", "export", "stats"}
     /\ last.user_id \in UserIds
     /\ ~users[last.user_id].is_superuser
     /\ ~read_gate(last.roles))
    => last.ids = {}

----------------------------------------------------------------------------
(* creation, update and cancellation by principals of every role list *)

\* the role assignments of user 2 are any an administrator has committed
InitMut ==
    /\ \E rl \in RoleLists :
         users = [SeedUsers EXCEPT ![2].roles = assign_user_roles(rl)]
    /\ tokens = [u \in UserIds |-> access_token(u, SeedUsers)]
    /\ receipts = {}
    /\ next_id = 1
    /\ year = 2025
    /\ clock = 0
    /\ sess = [w \in Workers |-> IdleSession]
    /\ last = NoRequest

\* the worker that serves the creations
MutWorkers == {"w1"}
MutBodies == {[status |-> "cancelled"], [donor_name |-> "B"]}

NextMut ==
    \/ \E w \in MutWorkers, u \in UserIds, donor \in NewDonors : CreateBegin(w, u, donor)
    \/ \E w \in MutWorkers : CreateCommit(w)
    \/ \E w \in MutWorkers : CreateReturn(w)
    \/ \E u \in UserIds, rid \in IdsExplored, body \in MutBodies : UpdateReceipt(u, rid, body)
    \/ \E u \in UserIds, rid \in IdsExplored : DeleteReceipt(u, rid)

SpecMut == InitMut /\ [][NextMut]_vars

\* the principal is a superuser or one of its roles lists the permission
MayMutate(u, permission) ==
    \/ users[u].is_superuser
    \/ \E i \in 1..Len(users[u].roles) : permission \in Granted(users[u].roles[i])

ViewerRoles == {"receipt_report_viewer", "user_data_editor", "user_data_viewer"}

\* the principal holds at least one role and viewer roles only
HoldsViewerRolesOnly(u) ==
    /\ Len(users[u].roles) >= 1
    /\ \A i \in 1..Len(users[u].roles) : users[u].roles[i] \in ViewerRoles

\* C14: a receipt appears only by a creation whose principal is a superuser
\* or holds a role granting CREATE_RECEIPTS, a receipt changes only by an
\* update or delete request whose principal is a superuser or holds a role
\* granting UPDATE_RECEIPTS or DELETE_RECEIPTS, no receipt disappears, and
\* the principal behind an appearing or changing receipt never holds viewer
\* roles only
C14_MutationsAreGated ==
    [][/\ \A r \in receipts' \ receipts :
            IF r.id \notin Ids(receipts)
            THEN /\ MayMutate(r.created_by, CREATE_RECEIPTS)
                 /\ ~HoldsViewerRolesOnly(r.created_by)
            ELSE /\ last'.op \in {"update", "delete"}
                 /\ last'.receipt_id = r.id
                 /\ last'.code \in {"ok", "error"}
                 /\ MayMutate(last'.user_id,
                              IF last'.op = "update" THEN UPDATE_RECEIPTS ELSE DELETE_RECEIPTS)
                 /\ ~HoldsViewerRolesOnly(last'.user_id)
       /\ Ids(receipts) \subseteq Ids(receipts')]_vars

\* a principal holding receipt_report_viewer only asked for an update or a
\* delete of an existing receipt and was denied
C14_Witness ==
    /\ last.op \in {"update", "delete"}
    /\ last.code = "denied"
    /\ last.roles = <<"receipt_report_viewer">>
    /\ \E r \in receipts : r.id = last.receipt_id

----------------------------------------------------------------------------
(* claims about the placeholder and the final code, checked under SpecSeq *)

\* sessions that hold a provisional row
Flushed == {w \in Workers : sess[w].pc = "flushed"}

----------------------------------------------------------------------------
(* claims about rejected requests, checked under SpecMut *)

\* C17: a create, update or delete request that ends in a permission denial
\* or an ownership violation leaves the receipts as they were, opens no
\* transaction and draws no identity: it is decided once, before any change
C17_RejectedBeforeMutation ==
    [][(/\ last' # last
        /\ last'.op \in {"create", "update", "delete"}
        /\ last'.code \in {"denied", "forbidden"})
       => /\ receipts' = receipts
          /\ sess' = sess
          /\ next_id' = next_id]_vars

\* an update carrying changes for a receipt of another creator was answered
\* 403
C17_Witness ==
    /\ last.op = "update"
    /\ last.code = "forbidden"
    /\ \E r \in receipts :
         /\ r.id = last.receipt_id
         /\ r.created_by # last.user_id
         /\ r.donor_name = "A"
         /\ r.status = "completed"

----------------------------------------------------------------------------
(* one creation at any identity, in any year, by a principal of any role list *)

InitFmt ==
    /\ \E rl \in RoleLists :
         users = [SeedUsers EXCEPT ![2].roles = assign_user_roles(rl)]
    /\ tokens = [u \in UserIds |-> access_token(u, SeedUsers)]
    /\ receipts = {}
    /\ next_id \in IdsExplored
    /\ year \in Years
    /\ clock = 0
    /\ sess = [w \in Workers |-> IdleSession]
    /\ last = NoRequest

NextFmt ==
    \/ \E w \in MutWorkers, u \in UserIds, donor \in NewDonors : CreateBegin(w, u, donor)
    \/ \E w \in MutWorkers : CreateCommit(w)
    \/ \E w \in MutWorkers : CreateReturn(w)
    \/ NewYear

SpecFmt == InitFmt /\ [][NextFmt]_vars

\* the text before the first "/" of a receipt code
CreatorField(s) ==
    LET slashes == {i \in 1..Len(s) : SubSeq(s, i, i) = "/"}
        a == CHOOSE i \in slashes : \A j \in slashes : i <= j
    IN SubSeq(s, 1, a - 1)

Slashes(s) == Cardinality({i \in 1..Len(s) : SubSeq(s, i, i) = "/"})

AllDigits(s) == \A i \in 1..Len(s) : IsDigit(SubSeq(s, i, i))

\* C18: a receipt is committed with a code of three fields separated by "/":
\* the creator code of its creator, the year current at its creation, and
\* its sequence in decimal digits, id - 630 when that is positive, padded
\* with zeros to four digits and longer when it needs more; identity 1407
\* of user receipt_creator7 with roles [receipt_creator] in 2025 is
\* RC7/2025/0777
C18_FinalCodeFormat ==
    [][\A r \in receipts' \ receipts :
          LET sequence == LastField(r.receipt_no)
          IN  /\ Slashes(r.receipt_no) = 2
              /\ CreatorField(r.receipt_no) = get_receipt_creator_code(r.created_by)
              /\ YearField(r.receipt_no) = ToString(year)
              /\ AllDigits(sequence)
              /\ Len(sequence) >= 4
              /\ Len(sequence) > 4 => SubSeq(sequence, 1, 1) # "0"
              /\ r.id - OFFSET > 0 => ParseInt(sequence) = r.id - OFFSET
              /\ (/\ r.id = 1407
                  /\ year = 2025
                  /\ Username(r.created_by) = "receipt_creator7"
                  /\ users[r.created_by].roles = <<RECEIPT_CREATOR>>)
                 => r.receipt_no = "RC7/2025/0777"]_vars

\* the receipt of the example is committed
C18_Witness ==
    \E r \in receipts :
        /\ r.id = 1407
        /\ Username(r.created_by) = "receipt_creator7"
        /\ r.receipt_no = "RC7/2025/0777"

\* C19: the sequence in the code of every committed receipt is positive: it
\* is the identity when the identity is at most 630 and the identity minus
\* 630 above; identity 50 of a superuser is RCA/<year>/0050
C19_SequencePositive ==
    \A r \in receipts :
        /\ SequenceOf(r.receipt_no) >= 1
        /\ r.id - OFFSET <= 0 => SequenceOf(r.receipt_no) = r.id
        /\ r.id - OFFSET > 0 => SequenceOf(r.receipt_no) = r.id - OFFSET
        /\ (r.id = 50 /\ users[r.created_by].is_superuser)
           => \E yr \in Years : r.receipt_no = "RCA/" \o ToString(yr) \o "/0050"

\* a superuser has created the receipt of identity 50
C19_Witness ==
    \E r \in receipts :
        /\ r.id = 50
        /\ users[r.created_by].is_superuser
        /\ SequenceOf(r.receipt_no) = 50

----------------------------------------------------------------------------
(* the creator code as a function of the user row *)

Usernames ==
    {"admin", "root", "receipt_creator7", "receipt_creator12", "receipt_creator",
     "receipt_creator_7", "editor1", "user2go"}

\* get_receipt_creator_code is called for a user row, or for an id without one
ResolveCreatorCode(found, username, user_roles, is_superuser, user_id) ==
    /\ last' = [op |-> "creator_code", found |-> found, username |-> username,
                roles |-> user_roles, is_superuser |-> is_superuser,
                user_id |-> user_id,
                code |-> creator_code_for(found, username, user_roles, is_superuser, user_id)]
    /\ UNCHANGED <<users, receipts, next_id, year, clock, sess, tokens>>

NextCreator ==
    \E found, is_superuser \in BOOLEAN, username \in Usernames,
       user_roles \in RoleLists, user_id \in UserIds :
        ResolveCreatorCode(found, username, user_roles, is_superuser, user_id)

SpecCreator == InitSeq /\ [][NextCreator]_vars

\* the digits a string ends with, "" when it ends with no digit
TrailingDigits(s) ==
    LET starts == {i \in 1..(Len(s) + 1) :
                     \A j \in i..Len(s) : IsDigit(SubSeq(s, j, j))}
        b == CHOOSE i \in starts : \A j \in starts : i <= j
    IN  SubSeq(s, b, Len(s))

\* C20 as stated: the creator code is RCA for a superuser or a holder of
\* admin, RC and the trailing digits of the username for a role-tagged
\* username receipt_creator<digits>, and RC and the id of the principal
\* otherwise, also when there is no user row
C20_CreatorCodeRule ==
    last.op = "creator_code" =>
        last.code =
            IF ~last.found THEN "RC" \o ToString(last.user_id)
            ELSE IF last.is_superuser \/ InList("admin", last.roles) THEN "RCA"
            ELSE IF /\ StartsWith(last.username, "receipt_creator")
                    /\ TrailingDigits(last.username) # ""
                 THEN "RC" \o TrailingDigits(last.username)
            ELSE "RC" \o ToString(last.user_id)

----------------------------------------------------------------------------
(* claims about user administration and failures, checked under SpecAcc *)

\* C21: an update of a user (deactivation, superuser flag, roles) leaves
\* every receipt that user created in the store with its created_by and its
\* receipt_no
C21_UserUpdateKeepsReceipts ==
    [][last'.op = "update_user"
       => \A r \in receipts :
            r.created_by = last'.user_id
            => \E r2 \in receipts' :
                 /\ r2.id = r.id
                 /\ r2.created_by = r.created_by
                 /\ r2.receipt_no = r.receipt_no]_vars

\* the creator of a receipt has been deactivated
C21_Witness ==
    /\ last.op = "update_user"
    /\ ~users[last.user_id].is_active
    /\ \E r \in receipts : r.created_by = last.user_id

(* claims about the answers of create, update and delete, under SpecMut *)
Mutations == {"create", "update", "delete"}
Failures == {"denied", "forbidden", "not_found", "error"}
Answer(response) == <<response.status_code, response.error_code>>

\* C22: for create, update and delete a permission denial, an ownership
\* violation, a missing receipt and a store failure reach the caller as
\* different answers, and a permission or ownership failure is never
\* answered with the status of the generic internal error (500)
C22_FailuresDistinguishable ==
    [][last'.op \in Mutations
       => /\ last'.code \in {"denied", "forbidden"} => last'.status_code # 500
          /\ ( /\ last.op = last'.op
               /\ last.code \in Failures
               /\ last'.code \in Failures
               /\ last.code # last'.code )
             => Answer(last) # Answer(last')]_vars

C22_Witness ==
    /\ last.op = "update"
    /\ last.code = "forbidden"
    /\ last.status_code = 403
    /\ \E r \in receipts : r.id = last.receipt_id /\ r.created_by # last.user_id

----------------------------------------------------------------------------
(* bearer tokens and role-gated routes *)

\* no access token has been issued to the user yet
NoToken == [sub |-> "", user_id |-> 0, roles |-> << >>]

\* what a request presents: no Authorization header, a bearer token that
\* does not verify against the secret key, or a token login signed, possibly
\* past its exp
Credentials ==
    {[bearer |-> FALSE, signed |-> FALSE, expired |-> FALSE, token |-> NoToken]}
    \cup {[bearer |-> TRUE, signed |-> FALSE, expired |-> FALSE,
           token |-> access_token(u, users)] : u \in UserIds}
    \cup {[bearer |-> TRUE, signed |-> TRUE, expired |-> e, token |-> tokens[u]] :
             u \in {v \in UserIds : tokens[v] # NoToken}, e \in BOOLEAN}

\* verify_token: the payload, or None (NoToken) on a JWTError
verify_token(credential) ==
    IF credential.signed /\ ~credential.expired THEN credential.token ELSE NoToken

\* decode_access_token: the sub of the payload, or None ("")
decode_access_token(credential) == verify_token(credential).sub

\* manager/auth.py get_user_by_username: the matching rows
get_user_by_username(username) == {u \in UserIds : Username(u) = username}

\* the inactive user is returned like any other
oauth2_get_current_user_ignores_is_active(credential) ==
    IF ~credential.bearer \/ get_user_by_username(decode_access_token(credential)) = {}
    THEN [status_code |-> 401, user_id |-> 0]
    ELSE [status_code |-> 200,
          user_id |-> CHOOSE u \in get_user_by_username(decode_access_token(credential)) : TRUE]

\* oauth2_scheme and get_current_user: 401 without a bearer token, 401 when
\* the token does not decode or names no user, 400 for an inactive user
oauth2_get_current_user(credential) ==
    IF ~credential.bearer THEN [status_code |-> 401, user_id |-> 0]
    ELSE LET username == decode_access_token(credential)
             found == get_user_by_username(username)
         IN  IF username = "" \/ found = {} THEN [status_code |-> 401, user_id |-> 0]
             ELSE LET user == CHOOSE u \in found : TRUE
                  IN  IF ~users[user].is_active
                      THEN [status_code |-> 400, user_id |-> user]
                      ELSE [status_code |-> 200, user_id |-> user]

\* the dependency raised: no handler runs
Unauthenticated(credential) ==
    /\ last' = [NoRequest EXCEPT !.op = "unauthenticated", !.code = "rejected",
                  !.user_id = oauth2_get_current_user(credential).user_id,
                  !.status_code = oauth2_get_current_user(credential).status_code]
    /\ UNCHANGED <<users, receipts, next_id, year, clock, sess, tokens>>


\* the check looks at the first allowed role only
role_checker_first_allowed(allowed_roles, user_id) ==
    IF users[user_id].is_superuser \/ InList(allowed_roles[1], get_user_roles(user_id))
    THEN "ok" ELSE "forbidden"

\* require_roles(allowed_roles): the role_checker it returns
role_checker(allowed_roles, user_id) ==
    IF users[user_id].is_superuser THEN "ok"
    ELSE IF \E i \in 1..Len(allowed_roles) : InList(allowed_roles[i], get_user_roles(user_id))
         THEN "ok" ELSE "forbidden"

require_admin == <<"admin">>
require_user_data_viewer == <<"admin", "user_data_editor", "user_data_viewer">>

\* the dependency of each role-gated read route
route_dependency(op) ==
    IF op = "get_all_users" THEN require_admin ELSE require_user_data_viewer

RoleGatedReads == {"get_all_users", "read_user_data", "read_village", "read_area"}

\* GET /auth/users, GET /user_data/, GET /village/, GET /area/
RoleGatedRead(op, user_id) ==
    /\ \E store_ok \in BOOLEAN :
         last' = Response(op, user_id, 0,
                          IF ~store_ok THEN "error"
                          ELSE role_checker(route_dependency(op), user_id))
    /\ UNCHANGED <<users, receipts, next_id, year, clock, sess, tokens>>

\* a role-gated read route: role_checker depends on get_current_user, the
\* handler runs for the user the dependency returned
ProtectedRead(credential, op) ==
    IF oauth2_get_current_user(credential).status_code = 200
    THEN RoleGatedRead(op, oauth2_get_current_user(credential).user_id)
    ELSE Unauthenticated(credential)

\* DELETE /receipts/{receipt_id} with current_user: user_dependency
ProtectedDelete(credential, receipt_id) ==
    IF oauth2_get_current_user(credential).status_code = 200
    THEN DeleteReceipt(oauth2_get_current_user(credential).user_id, receipt_id)
    ELSE Unauthenticated(credential)

\* role lists and updates of the administrator
GuardRoleLists ==
    { << >>, <<"admin">>, <<"user_data_editor">>, <<"user_data_viewer">>,
      <<RECEIPT_CREATOR>>, <<"receipt_report_viewer", "user_data_viewer">> }
GuardUpdates ==
    {[is_active |-> b] : b \in BOOLEAN}
    \cup {[is_superuser |-> b] : b \in BOOLEAN}
    \cup {[roles |-> rl] : rl \in GuardRoleLists}
GuardLogins == {1, 2}

\* nobody has logged in yet
InitGuard ==
    /\ users = SeedUsers
    /\ tokens = [u \in UserIds |-> NoToken]
    /\ year = 2025
    /\ clock = 0
    /\ next_id = 3
    /\ receipts =
         { [id |-> i, receipt_no |-> final_receipt_no(get_receipt_creator_code(i), year, i),
            created_by |-> i, status |-> "completed", donor_name |-> "A"] : i \in {1, 2} }
    /\ sess = [w \in Workers |-> IdleSession]
    /\ last = NoRequest

NextGuard ==
    \/ \E u \in GuardLogins : Login(u)
    \/ \E target \in AdminTargets, user_data \in GuardUpdates : UpdateUser(target, user_data)
    \/ \E c \in Credentials, op \in RoleGatedReads : ProtectedRead(c, op)
    \/ \E c \in Credentials, rid \in TokenRequestedIds : ProtectedDelete(c, rid)

SpecGuard == InitGuard /\ [][NextGuard]_vars

HeldRoles(u) == {users[u].roles[i] : i \in 1..Len(users[u].roles)}

\* C23: a role-gated route admits an authenticated principal exactly when it
\* is a superuser or holds one of the allowed roles: the user listing admits
\* holders of admin only, the user-data, village and area reads admit
\* holders of admin, user_data_editor or user_data_viewer
C23_RoleGates ==
    [][last'.op \in RoleGatedReads
       => LET u == last'.user_id
              allowed == IF last'.op = "get_all_users" THEN {"admin"}
                         ELSE {"admin", "user_data_editor", "user_data_viewer"}
              admitted == users[u].is_superuser \/ HeldRoles(u) \cap allowed # {}
          IN  /\ last'.code = "ok" => admitted
              /\ last'.code = "forbidden" => ~admitted
              /\ last'.code \in {"ok", "forbidden", "error"}]_vars

\* the user listing refuses a user_data_editor that the data reads admit
C23_Witness ==
    /\ last.op = "get_all_users"
    /\ last.code = "forbidden"
    /\ last.status_code = 403
    /\ users[last.user_id].roles = <<"user_data_editor">>
    /\ users[last.user_id].is_active

\* C24: a handler of a protected route runs only for an existing, active
\* user to whom login issued a token; a request the dependency rejects
\* (no token, a token that does not verify, the token of a deactivated
\* user) changes no state
C24_OnlyActivePrincipals ==
    [][/\ last'.op \in RoleGatedReads \cup {"delete"}
          => /\ last'.user_id \in UserIds
             /\ users[last'.user_id].is_active
             /\ tokens[last'.user_id] # NoToken
       /\ last'.op = "unauthenticated"
          => /\ last'.status_code \in {400, 401}
             /\ UNCHANGED <<users, receipts, next_id, tokens, sess>>]_vars

\* the token of a user deactivated after login was rejected
C24_Witness ==
    /\ last.op = "unauthenticated"
    /\ last.status_code = 400
    /\ last.user_id = 2
    /\ tokens[2] # NoToken
    /\ ~users[2].is_active

----------------------------------------------------------------------------
(* the export of GET /receipts/ with pdf or csv set, checked under SpecAcc *)

\* C25 as stated: an export is produced only for a superuser or for a
\* principal one of whose roles grants EXPORT_RECEIPTS
C25_ExportNeedsPermission ==
    (/\ last.op = "export"
     /\ last.code = "ok"
     /\ last.user_id \in UserIds)
    => \/ users[last.user_id].is_superuser
       \/ user_has_permission(last.roles, EXPORT_RECEIPTS)

----------------------------------------------------------------------------
(* the same authorization asked twice *)

\* role lists an administrator assigns between the two calls
TwiceRoleLists == { << >>, <<"admin">>, <<"receipt_report_viewer">> }

\* what the program holds besides the arguments of the check
Surroundings == <<users, year, clock>>

\* user_has_permission(user_roles, required_permission), first call
AuthorizeFirst(user_roles, required_permission) ==
    /\ last' = [op |-> "authorize_first", roles |-> user_roles,
                permission |-> required_permission, before |-> Surroundings,
                code |-> IF user_has_permission(user_roles, required_permission)
                         THEN "allow" ELSE "deny"]
    /\ UNCHANGED <<users, receipts, next_id, year, clock, sess, tokens>>

\* manager/auth.py assign_user_roles, committed by its caller
AssignUserRoles(target, role_names) ==
    /\ users' = [users EXCEPT ![target].roles = assign_user_roles(role_names)]
    /\ UNCHANGED <<receipts, next_id, year, clock, sess, last, tokens>>

\* the same call again, with the role list and permission of the first
AuthorizeAgain ==
    /\ last.op = "authorize_first"
    /\ last' = [op |-> "authorize_again", roles |-> last.roles,
                permission |-> last.permission, before |-> last.before,
                first |-> last.code,
                code |-> IF user_has_permission(last.roles, last.permission)
                         THEN "allow" ELSE "deny"]
    /\ UNCHANGED <<users, receipts, next_id, year, clock, sess, tokens>>

NextTwice ==
    \/ \E user_roles \in RoleLists, required_permission \in Permission :
          AuthorizeFirst(user_roles, required_permission)
    \/ \E target \in AdminTargets, role_names \in TwiceRoleLists :
          AssignUserRoles(target, role_names)
    \/ NewYear
    \/ Tick
    \/ AuthorizeAgain

SpecTwice == InitSeq /\ [][NextTwice]_vars

----------------------------------------------------------------------------
(* the scoped decision of update and delete, checked under SpecMut *)

\* C27 as stated, for the principal it names: the role union gives a
\* holder of admin the unscoped decision also when receipt_creator is held
\* too, so an update or delete by a principal holding both roles is never
\* refused because another principal created the receipt
C27_AdminCreatorOthers ==
    (/\ last.op \in {"update", "delete"}
     /\ last.user_id \in UserIds
     /\ InList("admin", last.roles)
     /\ InList(RECEIPT_CREATOR, last.roles))
    => last.code # "forbidden"

----------------------------------------------------------------------------
(* who a receipt is attributed to *)

\* JSON bodies of POST /receipts/: some name a creator
CreateBodies ==
    {[donor_name |-> "A"]}
    \cup {[donor_name |-> "A", created_by |-> c] : c \in {1, 2}}

\* JSON bodies of PUT /receipts/{id} that name a creator
OwnerBodies == {[created_by |-> 3], [donor_name |-> "B", created_by |-> 1]}

\* receipt ids the update and delete requests name
OwnerRequestedIds == {1, 2}

NextOwner ==
    \/ \E w \in Workers, u \in UserIds, body \in CreateBodies : CreateReceipt(w, u, body)
    \/ \E w \in Workers : CreateCommit(w)
    \/ \E w \in Workers : CreateReturn(w)
    \/ \E u \in UserIds, rid \in OwnerRequestedIds, body \in OwnerBodies :
          UpdateReceipt(u, rid, body)
    \/ \E u \in UserIds, rid \in OwnerRequestedIds : DeleteReceipt(u, rid)

SpecOwner == InitSeq /\ [][NextOwner]_vars

\* C28: the row a creation request inserts carries the id of the principal
\* that sent the request whatever creator its body names, the receipt is
\* committed with the creator of the inserted row, no later request changes
\* the creator of a receipt, and no two receipts share an id
C28_CreatorIsPrincipal ==
    [][/\ \A w \in Workers, u \in UserIds, body \in CreateBodies :
            (CreateReceipt(w, u, body) /\ sess'[w].pc = "flushed")
            => sess'[w].row.created_by = u
       /\ \A r \in receipts' :
            IF r.id \in Ids(receipts)
            THEN \E r0 \in receipts : r0.id = r.id /\ r0.created_by = r.created_by
            ELSE \E w \in Workers :
                    /\ sess[w].pc = "flushed"
                    /\ sess[w].row.id = r.id
                    /\ sess[w].row.created_by = r.created_by
       /\ \A r1, r2 \in receipts' : r1.id = r2.id => r1 = r2]_vars

\* a receipt committed for user 2 is still attributed to user 2 after an
\* update of user 2 whose body named another creator
C28_Witness ==
    /\ last.op = "update"
    /\ last.code = "ok"
    /\ last.user_id = 2
    /\ \E r \in receipts :
          /\ r.id = last.receipt_id
          /\ r.created_by = 2
          /\ ~IsPlaceholder(r.receipt_no)

----------------------------------------------------------------------------
(* GET /receipts/ with filters and pages *)

\* column ILIKE '%term%' on text in one case
Contains(text, term) ==
    \E i \in 1..(Len(text) - Len(term) + 1) : SubSeq(text, i, i + Len(term) - 1) = term

\* query parameters of GET /receipts/: a parameter that is absent is None
Filters ==
    { [f \in fields |-> CASE f = "donor_name" -> donor
                          [] f = "status" -> st
                          [] OTHER -> creator] :
        fields \in SUBSET {"donor_name", "status", "created_by"},
        donor \in Donors, st \in {"completed", "cancelled"}, creator \in {1, 2} }

PageNums == {1, 2}
PageSizes == {1, 10}

\* the created_by parameter replaces the restriction to the caller's receipts
list_query_creator_filter_overrides(filters, user_id, user_roles) ==
    IF "created_by" \in DOMAIN filters
    THEN {r \in receipts : r.created_by = filters.created_by}
    ELSE get_receipts_paginated(user_id, user_roles)

\* get_receipts_paginated: the role restriction, then one query.filter per
\* filter that is set; created_by is applied for admin and READ_RECEIPTS only
list_query(filters, user_id, user_roles) ==
    LET has_read_receipts == user_has_permission(user_roles, READ_RECEIPTS)
        is_admin == InList("admin", user_roles)
    IN  { r \in get_receipts_paginated(user_id, user_roles) :
            /\ "donor_name" \in DOMAIN filters
               => \/ Contains(r.donor_name, filters.donor_name)
                  \/ Contains(r.receipt_no, filters.donor_name)
            /\ "status" \in DOMAIN filters => r.status = filters.status
            /\ ("created_by" \in DOMAIN filters /\ Len(user_roles) > 0
                  /\ (has_read_receipts \/ is_admin))
               => r.created_by = filters.created_by }

\* query.order_by(receipt_date).offset(offset).limit(page_size).all(): the
\* rows at the page's positions in some order of the query's rows
Pages(rows, page_num, page_size) ==
    LET offset == (page_num - 1) * page_size
        remaining == IF Cardinality(rows) > offset THEN Cardinality(rows) - offset ELSE 0
        size == IF remaining < page_size THEN remaining ELSE page_size
    IN  {page \in SUBSET rows : Cardinality(page) = size}

\* GET /receipts/ with query parameters, pdf = csv = False
ListReceiptsFiltered(u, filters, page_num, page_size) ==
    /\ users[u].is_active
    /\ LET user_roles == get_user_roles(u)
           rows == list_query(filters, u, user_roles)
           answer(code, page, counted) ==
               [op |-> "list_filtered", user_id |-> u, roles |-> user_roles,
                code |-> code, filters |-> filters, ids |-> Ids(page),
                counted |-> Ids(counted), total_count |-> Cardinality(counted)]
       IN  \E store_ok \in BOOLEAN :
             IF ~read_gate(user_roles) THEN last' = answer("denied", {}, {})
             ELSE IF ~store_ok THEN last' = answer("error", {}, {})
             ELSE \E page \in Pages(rows, page_num, page_size) :
                     last' = answer("ok", page, rows)
    /\ UNCHANGED <<users, receipts, next_id, year, clock, sess, tokens>>

\* role lists of the principal that lists
FilterRoleLists ==
    { <<RECEIPT_CREATOR>>, <<"receipt_report_viewer", RECEIPT_CREATOR>>,
      <<"receipt_report_viewer">> }

NextFilter ==
    \/ \E u \in UserIds, filters \in Filters, page_num \in PageNums, page_size \in PageSizes :
          ListReceiptsFiltered(u, filters, page_num, page_size)
    \/ \E target \in AdminTargets, rl \in FilterRoleLists :
          UpdateUser(target, [roles |-> rl])
    \/ \E u \in UserIds, rid \in TokenRequestedIds : DeleteReceipt(u, rid)

SpecFilter == InitAcc /\ [][NextFilter]_vars

\* C29: for a principal holding receipt_creator every receipt a list request
\* returns and every receipt total_count counts was created by the
\* principal, whatever donor, status and creator filters the request carries
C29_FiltersNeverWiden ==
    (last.op = "list_filtered" /\ InList(RECEIPT_CREATOR, last.roles))
    => /\ last.ids \subseteq last.counted
       /\ last.total_count = Cardinality(last.counted)
       /\ \A id \in last.counted :
             \E r \in receipts : r.id = id /\ r.created_by = last.user_id

\* a holder of receipt_creator and receipt_report_viewer asked for the
\* receipts of another creator and was counted none
C29_Witness ==
    /\ last.op = "list_filtered"
    /\ last.code = "ok"
    /\ last.roles = <<"receipt_report_viewer", RECEIPT_CREATOR>>
    /\ "created_by" \in DOMAIN last.filters
    /\ last.filters.created_by # last.user_id
    /\ last.total_count = 0
    /\ \E r \in receipts : r.created_by = last.filters.created_by

----------------------------------------------------------------------------
(* termination of concurrent creations *)

\* every store operation returns: a request that has flushed goes on to its
\* commit, and a request that has committed goes on to its refresh and answer
NextLive ==
    \/ \E w \in Workers, u \in UserIds, donor \in NewDonors : CreateBegin(w, u, donor)
    \/ \E w \in Workers : CreateCommit(w)
    \/ \E w \in Workers : CreateReturn(w)
    \/ \E w \in Workers : Crash(w)
    \/ SequenceGap
    \/ Tick

SpecLive ==
    /\ InitSeq
    /\ [][NextLive]_vars
    /\ \A w \in Workers : WF_vars(CreateCommit(w)) /\ WF_vars(CreateReturn(w))

\* C30: every creation that has inserted its provisional row ends, its
\* session back to idle with nothing uncommitted left for others to wait
\* on; unless the worker died, it ends with an answer to its caller, the
\* receipt committed under its final code or an error
C30_CreationsTerminate ==
    /\ \A w \in Workers : (sess[w].pc # "idle") ~> (sess[w].pc = "idle")
    /\ [][\A w \in Workers :
            (sess[w].pc # "idle" /\ sess'[w].pc = "idle" /\ ~Crash(w))
            => /\ last'.op = "create"
               /\ last'.receipt_id = sess[w].row.id
               /\ last'.code \in {"created", "error"}
               /\ last'.code = "created"
                  => \E r \in receipts' :
                        r.id = sess[w].row.id /\ ~IsPlaceholder(r.receipt_no)]_vars

\* two creations are in flight at once, both rows inserted and uncommitted
C30_Witness ==
    \A w \in Workers : sess[w].pc = "flushed"
====
